---------------------------- MODULE Spec2Model ----------------------------
(***************************************************************************)
(* rargs: the field-reference template engine of src/main.rs.              *)
(*                                                                         *)
(* A string is a sequence of one-character strings (<<"a", "b">> is "ab"), *)
(* so that slicing, joining and concatenation are computed as the program  *)
(* computes them.  The regex engine is a library: what it yields on a line *)
(* (the list of matches, each with its capture groups) is an input.        *)
(***************************************************************************)
EXTENDS Integers, Sequences, FiniteSets, TLC

VARIABLES
    \* building a RegexContext
    pattern,      \* the Regex: the names of its capture groups 1..n
    line,         \* [content, matches]: the line and what the Regex yields on it
    context,      \* the RegexContext built, which the lookups run against
    \* RegexContext lookups
    range,        \* the Range looked up
    sep,          \* Option<&str>: the per-field separator
    joined,       \* result of get_by_range
    split,        \* result of get_by_split_range
    translated,   \* [idx, out]: a call of translate_neg_index
    named,        \* [name, out]: a call of get_by_name
    \* compiling and expanding one argument template
    template,     \* the argument string compiled
    fragments,    \* ArgTemplate.fragments
    grouped,      \* result of group_combinations
    expanded,     \* result of combine_with_context
    \* main: the read loop and the thread pool
    options,      \* Options: startnum, dryrun, threads
    overflow_checks, \* whether the build checks integer overflow (debug) or wraps
    args,         \* Rargs.args: the compiled templates
    stdin,        \* what read_until has yet to return
    line_num,     \* the counter of main
    read_count,   \* how many lines main has read (history)
    pool,         \* the queued jobs of the ThreadPool
    running,      \* the job each worker thread holds
    executed,     \* the commands run or printed, in the order they were
    exit_code,
    pc            \* position of the run, or of main

ctxVars == <<pattern, line, context>>
lookupVars == <<range, sep, joined, split, translated, named>>
tplVars == <<template, fragments, grouped, expanded>>
mainVars ==
    <<options, overflow_checks, args, stdin, line_num, read_count, pool, running,
      executed, exit_code>>
vars == <<ctxVars, lookupVars, tplVars, mainVars, pc>>

-----------------------------------------------------------------------------
(* Bounds *)

MaxGroups == 3

\* matches of the pattern on one line
MaxMatches == 2

\* length of the template strings enumerated over TemplateChars
MaxTemplateLen == 3

\* fragments handed to group_combinations
MaxFragments == 3

\* lines on the standard input
MaxLines == 3

\* threads of the pool
MaxThreads == 2

\* signed indices, reaching two past the largest group count on either side
Indices == (0 - (MaxGroups + 2)) .. (MaxGroups + 2)

\* captured substrings
Values == { <<"a">>, <<"b">> }

\* the whole line, map[""] and map["0"]
Contents == { <<>>, <<"a", " ", "b">> }

\* per-field separators of {l..r:sep}
Seps == { <<>>, <<",">> }

-----------------------------------------------------------------------------
(* Option<T>, and a panic as a third outcome of a call *)

Some(v) == [tag |-> "Some", val |-> v]
None == [tag |-> "None", val |-> <<>>]
Panic == [tag |-> "Panic", val |-> <<>>]

\* Option::unwrap_or
unwrap_or(opt, default) == IF opt.tag = "Some" THEN opt.val ELSE default

\* Vec<T> result of a call that may panic
Ok(v) == [tag |-> "Ok", val |-> v]

-----------------------------------------------------------------------------
(* enum Range *)

Single(num) == [kind |-> "Single", left |-> num, right |-> 0]
Both(l, r) == [kind |-> "Both", left |-> l, right |-> r]
LeftInf(r) == [kind |-> "LeftInf", left |-> 0, right |-> r]
RightInf(l) == [kind |-> "RightInf", left |-> l, right |-> 0]
Inf == [kind |-> "Inf", left |-> 0, right |-> 0]

Ranges ==
    { Single(n) : n \in Indices } \cup { Both(l, r) : l \in Indices, r \in Indices }
        \cup { LeftInf(r) : r \in Indices } \cup { RightInf(l) : l \in Indices } \cup { Inf }

-----------------------------------------------------------------------------
(* strings and slices *)

RECURSIVE concat(_)
\* the concatenation of a sequence of strings (Iterator::collect::<String>)
concat(strs) == IF strs = <<>> THEN <<>> ELSE Head(strs) \o concat(Tail(strs))

RECURSIVE join(_, _)
\* [T]::join(sep): the strings with sep between neighbours
join(strs, s) ==
    IF strs = <<>> THEN <<>>
    ELSE IF Len(strs) = 1 THEN strs[1]
    ELSE strs[1] \o s \o join(Tail(strs), s)

\* v[from..to] panics unless from <= to <= v.len()
slice_ok(v, from, to) == from <= to /\ to <= Len(v)
slice(v, from, to) == SubSeq(v, from + 1, to)

-----------------------------------------------------------------------------
(* struct RegexContext { map, groups, default_sep } *)

KeyWhole == <<>>
KeyZero == <<"0">>

\* HashMap::insert
insert(map, key, value) ==
    [k \in DOMAIN map \cup {key} |-> IF k = key THEN value ELSE map[k]]

\* HashMap::get(..).cloned()
map_get(map, key) == IF key \in DOMAIN map THEN Some(map[key]) ELSE None

CONTEXT_KEY_LINENUM == <<"L", "I", "N", "E", "N", "U", "M">>
CONTEXT_KEY_LINENUM_SHORT == <<"L", "N">>

\* Iterator::flatten over Option<T>: the values of the entries that are Some
flatten(opts) ==
    LET some == SelectSeq(opts, LAMBDA o : o.tag = "Some")
    IN  [i \in 1..Len(some) |-> some[i].val]

\* Regex::capture_names().flatten(): the names of the named groups, in group order
capture_names(pat) == SelectSeq(pat, LAMBDA n : n # <<>>)

\* One item of Regex::captures_iter: group 0, the whole match, then the groups
\* 1..n of the match (None for a group that did not take part).  The whole match
\* is taken to be the captured pieces side by side.
Captures(m) == <<Some(concat(flatten(m)))>> \o m

\* Captures::name
caps_name(pat, caps, name) ==
    IF \E g \in 1..Len(pat) : pat[g] = name
    THEN caps[1 + (CHOOSE g \in 1..Len(pat) : pat[g] = name)]
    ELSE None

\* the numbered groups of one match, with group 0 kept (no skip(1))
numbered_groups_with_whole(caps) == flatten(caps)

\* caps.iter().skip(1).flatten()
numbered_groups(caps) == flatten(Tail(caps))

RECURSIVE named_groups(_, _, _, _)

\* the named-group loop keeping the first value written for a name
named_groups_first_wins(map, pat, caps, names) ==
    IF names = <<>> THEN map
    ELSE LET mat == caps_name(pat, caps, Head(names))
             next == IF mat.tag = "Some" /\ Head(names) \notin DOMAIN map
                     THEN insert(map, Head(names), mat.val)
                     ELSE map
         IN  named_groups(next, pat, caps, Tail(names))

\* for name in group_names: if let Some(mat) = caps.name(name) { map.insert(..) }
named_groups(map, pat, caps, names) ==
    IF names = <<>> THEN map
    ELSE LET mat == caps_name(pat, caps, Head(names))
             next == IF mat.tag = "Some" THEN insert(map, Head(names), mat.val) ELSE map
         IN  named_groups(next, pat, caps, Tail(names))

RECURSIVE captures_loop(_, _, _, _)
\* for caps in pattern.captures_iter(content) { .. }
captures_loop(pat, matches, map, groups) ==
    IF matches = <<>> THEN [map |-> map, groups |-> groups]
    ELSE LET caps == Captures(Head(matches))
         IN  captures_loop(pat, Tail(matches),
                           named_groups(map, pat, caps, capture_names(pat)),
                           groups \o numbered_groups(caps))

\* RegexContext::builder(pattern, content)
builder(pat, ln) ==
    LET map == insert(insert(<<>>, KeyWhole, ln.content), KeyZero, ln.content)
        done == captures_loop(pat, ln.matches, map, <<>>)
    IN  [map |-> done.map, groups |-> done.groups, default_sep |-> <<" ">>]

\* RegexContext::default_sep
default_sep(ctx, s) == [ctx EXCEPT !.default_sep = s]

\* RegexContext::put
put(ctx, key, value) == [ctx EXCEPT !.map = insert(ctx.map, key, value)]

\* translate_neg_index with "idx + len" for "idx + len + 1"
translate_neg_index_off_by_one(ctx, idx) ==
    LET len == Len(ctx.groups)
        i == IF idx < 0 THEN idx + len ELSE idx
    IN  IF 0 >= i THEN 0 ELSE i

translate_neg_index(ctx, idx) ==
    LET len == Len(ctx.groups)
        i == IF idx < 0 THEN idx + len + 1 ELSE idx
    IN  IF 0 >= i THEN 0 ELSE i

get_by_name(ctx, group_name) == map_get(ctx.map, group_name)

RECURSIVE get_by_range(_, _, _)

\* get_by_range whose Single arm reads groups[num] for groups[num - 1]
get_by_range_single_shifted(ctx, r, s) ==
    LET groups == ctx.groups
        with == unwrap_or(s, ctx.default_sep)
    IN  CASE r.kind = "Single" ->
                LET num == translate_neg_index(ctx, r.left)
                IN  IF num = 0 THEN map_get(ctx.map, KeyWhole)
                    ELSE IF num > Len(groups) THEN None
                    ELSE IF num + 1 > Len(groups) THEN Panic
                    ELSE Some(groups[num + 1])
          [] r.kind = "Both" ->
                LET left == translate_neg_index(ctx, r.left)
                    right == translate_neg_index(ctx, r.right)
                IN  IF left = 0 THEN get_by_range(ctx, LeftInf(right), s)
                    ELSE IF right > Len(groups) THEN get_by_range(ctx, RightInf(left), s)
                    ELSE IF left = right THEN get_by_range(ctx, Single(left), s)
                    ELSE IF slice_ok(groups, left - 1, right)
                         THEN Some(join(slice(groups, left - 1, right), with))
                         ELSE Panic
          [] r.kind = "LeftInf" ->
                LET right == translate_neg_index(ctx, r.right)
                IN  IF right > Len(groups) THEN get_by_range(ctx, Inf, s)
                    ELSE IF slice_ok(groups, 0, right)
                         THEN Some(join(slice(groups, 0, right), with))
                         ELSE Panic
          [] r.kind = "RightInf" ->
                LET left == translate_neg_index(ctx, r.left)
                IN  IF left = 0 THEN get_by_range(ctx, Inf, s)
                    ELSE IF slice_ok(groups, left - 1, Len(groups))
                         THEN Some(join(slice(groups, left - 1, Len(groups)), with))
                         ELSE Panic
          [] r.kind = "Inf" -> Some(join(groups, with))

get_by_range(ctx, r, s) ==
    LET groups == ctx.groups
        with == unwrap_or(s, ctx.default_sep)
    IN  CASE r.kind = "Single" ->
                LET num == translate_neg_index(ctx, r.left)
                IN  IF num = 0 THEN map_get(ctx.map, KeyWhole)
                    ELSE IF num > Len(groups) THEN None
                    ELSE Some(groups[num])
          [] r.kind = "Both" ->
                LET left == translate_neg_index(ctx, r.left)
                    right == translate_neg_index(ctx, r.right)
                IN  IF left = 0 THEN get_by_range(ctx, LeftInf(right), s)
                    ELSE IF right > Len(groups) THEN get_by_range(ctx, RightInf(left), s)
                    ELSE IF left = right THEN get_by_range(ctx, Single(left), s)
                    ELSE IF slice_ok(groups, left - 1, right)
                         THEN Some(join(slice(groups, left - 1, right), with))
                         ELSE Panic
          [] r.kind = "LeftInf" ->
                LET right == translate_neg_index(ctx, r.right)
                IN  IF right > Len(groups) THEN get_by_range(ctx, Inf, s)
                    ELSE IF slice_ok(groups, 0, right)
                         THEN Some(join(slice(groups, 0, right), with))
                         ELSE Panic
          [] r.kind = "RightInf" ->
                LET left == translate_neg_index(ctx, r.left)
                IN  IF left = 0 THEN get_by_range(ctx, Inf, s)
                    ELSE IF slice_ok(groups, left - 1, Len(groups))
                         THEN Some(join(slice(groups, left - 1, Len(groups)), with))
                         ELSE Panic
          [] r.kind = "Inf" -> Some(join(groups, with))

RECURSIVE get_by_split_range(_, _)
get_by_split_range(ctx, r) ==
    LET groups == ctx.groups
    IN  CASE r.kind = "Single" ->
                LET num == translate_neg_index(ctx, r.left)
                    whole == map_get(ctx.map, KeyWhole)
                IN  IF num = 0
                    THEN (IF whole.tag = "Some" THEN Ok(<<whole.val>>) ELSE Ok(<<>>))
                    ELSE IF num > Len(groups) THEN Ok(<<>>)
                    ELSE Ok(<<groups[num]>>)
          [] r.kind = "Both" ->
                LET left == translate_neg_index(ctx, r.left)
                    right == translate_neg_index(ctx, r.right)
                IN  IF left = 0 THEN get_by_split_range(ctx, LeftInf(right))
                    ELSE IF right > Len(groups) THEN get_by_split_range(ctx, RightInf(left))
                    ELSE IF left = right THEN get_by_split_range(ctx, Single(left))
                    ELSE IF slice_ok(groups, left - 1, right)
                         THEN Ok(slice(groups, left - 1, right))
                         ELSE Panic
          [] r.kind = "LeftInf" ->
                LET right == translate_neg_index(ctx, r.right)
                IN  IF right > Len(groups) THEN get_by_split_range(ctx, Inf)
                    ELSE IF slice_ok(groups, 0, right)
                         THEN Ok(slice(groups, 0, right))
                         ELSE Panic
          [] r.kind = "RightInf" ->
                LET left == translate_neg_index(ctx, r.left)
                IN  IF left = 0 THEN get_by_split_range(ctx, Inf)
                    ELSE IF slice_ok(groups, left - 1, Len(groups))
                         THEN Ok(slice(groups, left - 1, Len(groups)))
                         ELSE Panic
          [] r.kind = "Inf" -> Ok(groups)

-----------------------------------------------------------------------------
(* enum ArgFragment, ArgFragment::parse and ArgTemplate::from *)

Literal(s) == [kind |-> "Literal", text |-> s, range |-> Inf, sep |-> None]
NamedGroup(s) == [kind |-> "NamedGroup", text |-> s, range |-> Inf, sep |-> None]
RangeGroup(r, s) == [kind |-> "RangeGroup", text |-> <<>>, range |-> r, sep |-> s]
SplitRangeGroup(r) == [kind |-> "SplitRangeGroup", text |-> <<>>, range |-> r, sep |-> None]

I32Max == 2147483647

Digits == <<"0", "1", "2", "3", "4", "5", "6", "7", "8", "9">>
IsDigit(c) == \E d \in 1..10 : Digits[d] = c
DigitValue(c) == (CHOOSE d \in 1..10 : Digits[d] = c) - 1

\* [[:space:]]
IsSpace(c) == c \in {" ", "\t", "\n", "\r", "\f"}

\* [[:word:]]
IsWord(c) ==
    \/ IsDigit(c)
    \/ c \in {"_", "a", "b", "c", "d", "e", "f", "g", "h", "i", "j", "k", "l", "m", "n",
              "o", "p", "q", "r", "s", "t", "u", "v", "w", "x", "y", "z", "A", "B", "C",
              "D", "E", "F", "G", "H", "I", "J", "K", "L", "M", "N", "O", "P", "Q", "R",
              "S", "T", "U", "V", "W", "X", "Y", "Z"}

RECURSIVE parse_digits(_, _, _)
\* the digits of str added to acc (kept negative for a negative number); None
\* when the number leaves i32
parse_digits(str, neg, acc) ==
    IF str = <<>> THEN Some(acc)
    ELSE LET d == DigitValue(Head(str))
             lim == I32Max \div 10
         IN  IF neg
             THEN (IF acc > 0 - lim \/ (acc = 0 - lim /\ d <= (I32Max % 10) + 1)
                   THEN parse_digits(Tail(str), neg, acc * 10 - d)
                   ELSE None)
             ELSE (IF acc < lim \/ (acc = lim /\ d <= I32Max % 10)
                   THEN parse_digits(Tail(str), neg, acc * 10 + d)
                   ELSE None)

\* str::parse::<i32> of a text -?\d*: Err (None) for no digit and on overflow
parse_i32(str) ==
    LET neg == str # <<>> /\ Head(str) = "-"
        digits == IF neg THEN Tail(str) ELSE str
    IN  IF digits = <<>> THEN None ELSE parse_digits(digits, neg, 0)

RECURSIVE trim_start(_)
trim_start(str) ==
    IF str # <<>> /\ IsSpace(Head(str)) THEN trim_start(Tail(str)) ELSE str

RECURSIVE trim_end(_)
trim_end(str) ==
    IF str # <<>> /\ IsSpace(str[Len(str)])
    THEN trim_end(SubSeq(str, 1, Len(str) - 1))
    ELSE str

\* the length of the longest prefix of str of the form -?\d*
RECURSIVE digits_prefix(_)
digits_prefix(str) ==
    IF str # <<>> /\ IsDigit(Head(str)) THEN 1 + digits_prefix(Tail(str)) ELSE 0
number_prefix(str) ==
    IF str # <<>> /\ Head(str) = "-" THEN 1 + digits_prefix(Tail(str)) ELSE digits_prefix(str)

\* ^\{[[:space:]]*(?P<num>-?\d+)[[:space:]]*\}$ : the text of num, or None
FIELD_SINGLE(inner) ==
    LET t == trim_end(trim_start(inner))
        n == number_prefix(t)
    IN  IF n = Len(t) /\ n > 0 /\ IsDigit(t[n]) THEN Some(t) ELSE None

\* ^\{[[:space:]]*(?P<name>[[:word:]]*)[[:space:]]*\}$ : the text of name, or None
FIELD_NAMED(inner) ==
    LET t == trim_end(trim_start(inner))
    IN  IF \A i \in 1..Len(t) : IsWord(t[i]) THEN Some(t) ELSE None

\* ^\{(?P<left>-?\d*)?<dots>(?P<right>-?\d*)? and what follows, or None.
\* The groups left and right can match the empty text, so they always take part.
range_bounds(inner, dots) ==
    LET nl == number_prefix(inner)
        after == SubSeq(inner, nl + 1, Len(inner))
    IN  IF Len(after) >= dots /\ \A i \in 1..dots : after[i] = "."
        THEN LET rest == SubSeq(after, dots + 1, Len(after))
                 nr == number_prefix(rest)
             IN  Some([left |-> Some(SubSeq(inner, 1, nl)),
                       right |-> Some(SubSeq(rest, 1, nr)),
                       tail |-> SubSeq(rest, nr + 1, Len(rest))])
        ELSE None

\* ^\{(?P<left>-?\d*)?\.\.(?P<right>-?\d*)?(?::(?P<sep>.*))?\}$
FIELD_RANGE(inner) ==
    LET b == range_bounds(inner, 2)
    IN  IF b.tag = "None" THEN None
        ELSE IF b.val.tail = <<>>
             THEN Some([left |-> b.val.left, right |-> b.val.right, sep |-> None])
        ELSE IF Head(b.val.tail) = ":" /\ \A i \in 1..Len(b.val.tail) : b.val.tail[i] # "\n"
             THEN Some([left |-> b.val.left, right |-> b.val.right,
                        sep |-> Some(Tail(b.val.tail))])
        ELSE None

\* ^\{(?P<left>-?\d*)?\.\.\.(?P<right>-?\d*)?\}$
FIELD_SPLIT_RANGE(inner) ==
    LET b == range_bounds(inner, 3)
    IN  IF b.tag = "None" \/ b.val.tail # <<>> THEN None
        ELSE Some([left |-> b.val.left, right |-> b.val.right, sep |-> None])

\* match (opt_left, opt_right) { .. }, the bounds parsed with unwrap_or(1) and
\* unwrap_or(-1)
range_of(caps) ==
    LET left == unwrap_or(parse_i32(caps.left.val), 1)
        right == unwrap_or(parse_i32(caps.right.val), -1)
    IN  CASE caps.left.tag = "None" /\ caps.right.tag = "None" -> Inf
          [] caps.left.tag = "None" /\ caps.right.tag = "Some" -> LeftInf(right)
          [] caps.left.tag = "Some" /\ caps.right.tag = "None" -> RightInf(left)
          [] OTHER -> Both(left, right)

\* ArgFragment::parse: the fragment of a {..} token, or Panic ("field is not a number")
parse(field_string) ==
    LET inner == SubSeq(field_string, 2, Len(field_string) - 1)
    IN  IF FIELD_SINGLE(inner).tag = "Some"
        THEN LET num == parse_i32(FIELD_SINGLE(inner).val)
             IN  IF num.tag = "Some" THEN Ok(RangeGroup(Single(num.val), None)) ELSE Panic
        ELSE IF FIELD_NAMED(inner).tag = "Some"
        THEN Ok(NamedGroup(FIELD_NAMED(inner).val))
        ELSE IF FIELD_RANGE(inner).tag = "Some"
        THEN Ok(RangeGroup(range_of(FIELD_RANGE(inner).val), FIELD_RANGE(inner).val.sep))
        ELSE IF FIELD_SPLIT_RANGE(inner).tag = "Some"
        THEN Ok(SplitRangeGroup(range_of(FIELD_SPLIT_RANGE(inner).val)))
        ELSE Ok(Literal(field_string))

IsBrace(c) == c \in {"{", "}"}

RECURSIVE find_iter(_, _)
\* CMD_REGEX.find_iter(arg) from byte `at` on: the matches of \{[^{}]*\}, each
\* [start, end) as Match::start and Match::end give it
find_iter(arg, at) ==
    IF at >= Len(arg) THEN <<>>
    ELSE IF arg[at + 1] # "{" THEN find_iter(arg, at + 1)
    ELSE LET braces == { j \in (at + 2)..Len(arg) : IsBrace(arg[j]) }
             close == IF braces = {} THEN 0
                      ELSE CHOOSE j \in braces : \A x \in braces : j <= x
         IN  IF close # 0 /\ arg[close] = "}"
             THEN <<[start |-> at, end |-> close]>> \o find_iter(arg, close)
             ELSE find_iter(arg, at + 1)

RECURSIVE from_matches(_, _, _)
\* the loop of ArgTemplate::from over the matches, then the closing Literal
from_matches(arg, mats, last) ==
    IF mats = <<>> THEN Ok(<<Literal(SubSeq(arg, last + 1, Len(arg)))>>)
    ELSE LET mat == Head(mats)
             field == parse(SubSeq(arg, mat.start + 1, mat.end))
             rest == from_matches(arg, Tail(mats), mat.end)
         IN  IF field.tag = "Panic" \/ rest.tag = "Panic" THEN Panic
             ELSE Ok(<<Literal(SubSeq(arg, last + 1, mat.start)), field.val>> \o rest.val)

\* impl From<&str> for ArgTemplate: the fragments, or Panic
From(arg) == from_matches(arg, find_iter(arg, 0), 0)

-----------------------------------------------------------------------------
(* enum Combination, group_combinations and combine_with_context *)

CombinationJoin(joins) == [kind |-> "Join", joins |-> joins, range |-> Inf]
CombinationSplit(r) == [kind |-> "Split", joins |-> <<>>, range |-> r]

\* Join::Literal, Join::NamedGroup, Join::RangeGroup of a fragment
JoinOf(e) == [kind |-> e.kind, text |-> e.text, range |-> e.range, sep |-> e.sep]

\* the fold step that loses the Split before a named or ranged fragment
group_step_drops_split(acc, e) ==
    IF acc = <<>>
    THEN CASE e.kind = "Literal" ->
                 IF e.text = <<>> THEN <<>> ELSE <<CombinationJoin(<<JoinOf(e)>>)>>
           [] e.kind \in {"NamedGroup", "RangeGroup"} -> <<CombinationJoin(<<JoinOf(e)>>)>>
           [] e.kind = "SplitRangeGroup" -> <<CombinationSplit(e.range)>>
    ELSE LET last == acc[Len(acc)]
             init == SubSeq(acc, 1, Len(acc) - 1)
         IN  CASE e.kind = "SplitRangeGroup" -> init \o <<last, CombinationSplit(e.range)>>
               [] e.kind # "SplitRangeGroup" /\ last.kind = "Join" ->
                     init \o <<CombinationJoin(Append(last.joins, JoinOf(e)))>>
               [] e.kind = "Literal" /\ last.kind = "Split" ->
                     IF e.text = <<>> THEN init \o <<last>>
                     ELSE init \o <<last, CombinationJoin(<<JoinOf(e)>>)>>
               [] e.kind \in {"NamedGroup", "RangeGroup"} /\ last.kind = "Split" ->
                     init \o <<CombinationJoin(<<JoinOf(e)>>)>>

\* the fold step that drops every empty Literal, a Join being open or not
group_step_drops_empty_literal(acc, e) ==
    IF acc = <<>>
    THEN CASE e.kind = "Literal" ->
                 IF e.text = <<>> THEN <<>> ELSE <<CombinationJoin(<<JoinOf(e)>>)>>
           [] e.kind \in {"NamedGroup", "RangeGroup"} -> <<CombinationJoin(<<JoinOf(e)>>)>>
           [] e.kind = "SplitRangeGroup" -> <<CombinationSplit(e.range)>>
    ELSE LET last == acc[Len(acc)]
             init == SubSeq(acc, 1, Len(acc) - 1)
         IN  CASE e.kind = "SplitRangeGroup" -> init \o <<last, CombinationSplit(e.range)>>
               [] e.kind # "SplitRangeGroup" /\ last.kind = "Join" ->
                     IF e.kind = "Literal" /\ e.text = <<>> THEN init \o <<last>>
                     ELSE init \o <<CombinationJoin(Append(last.joins, JoinOf(e)))>>
               [] e.kind = "Literal" /\ last.kind = "Split" ->
                     IF e.text = <<>> THEN init \o <<last>>
                     ELSE init \o <<last, CombinationJoin(<<JoinOf(e)>>)>>
               [] e.kind \in {"NamedGroup", "RangeGroup"} /\ last.kind = "Split" ->
                     init \o <<last, CombinationJoin(<<JoinOf(e)>>)>>

\* the closure folded by group_combinations: acc.pop(), the match, acc.append(tail)
group_step(acc, e) ==
    IF acc = <<>>
    THEN CASE e.kind = "Literal" ->
                 IF e.text = <<>> THEN <<>> ELSE <<CombinationJoin(<<JoinOf(e)>>)>>
           [] e.kind \in {"NamedGroup", "RangeGroup"} -> <<CombinationJoin(<<JoinOf(e)>>)>>
           [] e.kind = "SplitRangeGroup" -> <<CombinationSplit(e.range)>>
    ELSE LET last == acc[Len(acc)]
             init == SubSeq(acc, 1, Len(acc) - 1)
         IN  CASE e.kind = "SplitRangeGroup" -> init \o <<last, CombinationSplit(e.range)>>
               [] e.kind # "SplitRangeGroup" /\ last.kind = "Join" ->
                     init \o <<CombinationJoin(Append(last.joins, JoinOf(e)))>>
               [] e.kind = "Literal" /\ last.kind = "Split" ->
                     IF e.text = <<>> THEN init \o <<last>>
                     ELSE init \o <<last, CombinationJoin(<<JoinOf(e)>>)>>
               [] e.kind \in {"NamedGroup", "RangeGroup"} /\ last.kind = "Split" ->
                     init \o <<last, CombinationJoin(<<JoinOf(e)>>)>>

RECURSIVE fold(_, _)
\* Iterator::fold(vec![], closure)
fold(acc, frags) == IF frags = <<>> THEN acc ELSE fold(group_step(acc, Head(frags)), Tail(frags))

group_combinations(frags) == fold(<<>>, frags)

\* what one Join sub-field contributes: a Vec of zero or one string, or Panic
join_value(ctx, j) ==
    CASE j.kind = "Literal" -> Ok(<<j.text>>)
      [] j.kind = "NamedGroup" ->
            LET c == get_by_name(ctx, j.text)
            IN  IF c.tag = "Some" THEN Ok(<<c.val>>) ELSE Ok(<<>>)
      [] j.kind = "RangeGroup" ->
            LET c == get_by_range(ctx, j.range, j.sep)
            IN  IF c.tag = "Panic" THEN Panic
                ELSE IF c.tag = "Some" THEN Ok(<<c.val>>) ELSE Ok(<<>>)

\* a flat_map(..).collect() of results: side by side; a panic of one is a panic
\* of the whole
chain(head, rest) ==
    IF head.tag = "Panic" \/ rest.tag = "Panic" THEN Panic ELSE Ok(head.val \o rest.val)

RECURSIVE join_values(_, _)
\* joins.iter().flat_map(|join| ..)
join_values(ctx, joins) ==
    IF joins = <<>> THEN Ok(<<>>)
    ELSE chain(join_value(ctx, Head(joins)), join_values(ctx, Tail(joins)))

\* what one Combination contributes to the arguments
combination_value(ctx, combination) ==
    IF combination.kind = "Join"
    THEN LET parts == join_values(ctx, combination.joins)
         IN  IF parts.tag = "Panic" THEN Panic ELSE Ok(<<concat(parts.val)>>)
    ELSE get_by_split_range(ctx, combination.range)

RECURSIVE combine_with_context(_, _)
\* combinations.flat_map(|combination| ..).collect()
combine_with_context(ctx, combinations) ==
    IF combinations = <<>> THEN Ok(<<>>)
    ELSE chain(combination_value(ctx, Head(combinations)),
               combine_with_context(ctx, Tail(combinations)))

\* ArgTemplate::apply_context
apply_context(frags, ctx) == combine_with_context(ctx, group_combinations(frags))

-----------------------------------------------------------------------------
(* The lookups of one RegexContext *)

\* every sequence over S of length at most n
SeqsUpTo(S, n) == UNION { [1..k -> S] : k \in 0..n }

\* the contexts RegexContext::builder can leave: "" and "0" hold the line
RangeContexts ==
    { [map |-> [k \in {KeyWhole, KeyZero} |-> c], groups |-> g, default_sep |-> <<" ">>] :
        c \in Contents, g \in SeqsUpTo(Values, MaxGroups) }

NoCall == [idx |-> 0, out |-> 0]
NoName == <<>>
NoLookup == [name |-> NoName, out |-> None]
NoLine == [content |-> <<>>, matches |-> <<>>]

\* the index fields a Range hands to translate_neg_index
RangeIndices(r) ==
    CASE r.kind \in {"Single", "RightInf"} -> {r.left}
      [] r.kind = "LeftInf" -> {r.right}
      [] r.kind = "Both" -> {r.left, r.right}
      [] OTHER -> {}

NoOptions == [startnum |-> 1, dryrun |-> FALSE, threads |-> 1]

LookupIdle ==
    /\ range = Inf
    /\ sep = None
    /\ joined = None
    /\ split = Ok(<<>>)
    /\ translated = NoCall
    /\ named = NoLookup

TplIdle ==
    /\ template = <<>>
    /\ fragments = <<>>
    /\ grouped = <<>>
    /\ expanded = Ok(<<>>)

MainIdle ==
    /\ options = NoOptions
    /\ overflow_checks = FALSE
    /\ args = <<>>
    /\ stdin = <<>>
    /\ line_num = 0
    /\ read_count = 0
    /\ pool = <<>>
    /\ running = <<>>
    /\ executed = <<>>
    /\ exit_code = 0

InitRange ==
    /\ pattern = <<>>
    /\ line = NoLine
    /\ named = NoLookup
    /\ TplIdle
    /\ MainIdle
    /\ context \in RangeContexts
    /\ range \in Ranges
    /\ sep \in {None} \cup { Some(s) : s \in Seps }
    /\ joined = None
    /\ split = Ok(<<>>)
    /\ translated = NoCall
    /\ pc = "start"

TranslateNegIndex ==
    /\ pc = "start"
    /\ \E i \in RangeIndices(range) :
          translated' = [idx |-> i, out |-> translate_neg_index(context, i)]
    /\ pc' = "translated"
    /\ UNCHANGED <<ctxVars, range, sep, joined, split, named, tplVars, mainVars>>

GetByRange ==
    /\ pc \in {"start", "split"}
    /\ joined' = get_by_range(context, range, sep)
    /\ pc' = IF pc = "start" THEN "joined" ELSE "both"
    /\ UNCHANGED <<ctxVars, range, sep, split, translated, named, tplVars, mainVars>>

GetBySplitRange ==
    /\ pc \in {"start", "joined"}
    /\ split' = get_by_split_range(context, range)
    /\ pc' = IF pc = "start" THEN "split" ELSE "both"
    /\ UNCHANGED <<ctxVars, range, sep, joined, translated, named, tplVars, mainVars>>

NextRange == TranslateNegIndex \/ GetByRange \/ GetBySplitRange

SpecRange == InitRange /\ [][NextRange]_vars

-----------------------------------------------------------------------------
(* Claims about the lookups *)

HasJoined == pc \in {"joined", "both"}
HasSplit == pc \in {"split", "both"}

\* C1: resolving a reference never aborts: for every Range shape, every signed
\* index and every number of groups, get_by_range returns a string or absent
\* and get_by_split_range returns a sequence, neither panics.
C1_NeverPanics ==
    /\ HasJoined => joined.tag \in {"Some", "None"}
    /\ HasSplit => split.tag = "Ok"

\* the index a Bounded(l, l) collapses on, translated
CollapseIndex == translate_neg_index(context, range.left)
IsCollapsed == range.kind = "Both" /\ range.left = range.right

\* C7 (as claimed): for every signed index l, including 0 and values beyond the
\* number of groups, Bounded(l, l) resolves as Single(l) does, joined and split.
C7_CollapseEveryIndex ==
    IsCollapsed =>
        /\ HasJoined => joined = get_by_range(context, Single(range.left), sep)
        /\ HasSplit => split = get_by_split_range(context, Single(range.left))

\* C7 (amended): for every signed index l that translates to an existing group
\* (1 <= translated l <= number of groups), Bounded(l, l) resolves as Single(l)
\* does: joined, both give that group's string; split, both give that one group.
\* For l translating to 0, Bounded(l, l) is LeftInf(0): the empty string and no
\* element, where Single(l) gives the whole line.
C7_CollapseInRange ==
    /\ (IsCollapsed /\ CollapseIndex \in 1..Len(context.groups)) =>
          /\ HasJoined =>
                /\ joined = Some(context.groups[CollapseIndex])
                /\ joined = get_by_range(context, Single(range.left), sep)
          /\ HasSplit =>
                /\ split = Ok(<<context.groups[CollapseIndex]>>)
                /\ split = get_by_split_range(context, Single(range.left))
    /\ (IsCollapsed /\ CollapseIndex = 0) =>
          /\ HasJoined => joined = Some(<<>>)
          /\ HasSplit => split = Ok(<<>>)

C7_Witness ==
    /\ pc = "both"
    /\ IsCollapsed
    /\ range.left < 0
    /\ CollapseIndex = 2
    /\ Len(context.groups) = 3
    /\ joined = Some(context.groups[2])
    /\ split = Ok(<<context.groups[2]>>)

\* C8: join and split addressing agree for every Range, group sequence and
\* separator: when get_by_range returns a string it is the elements of
\* get_by_split_range joined with the separator (for Single, the sole element);
\* when get_by_range returns absent, get_by_split_range returns no element; and
\* the one aborts exactly when the other does.
C8_JoinSplitConsistent ==
    pc = "both" =>
        /\ joined.tag = "Some" =>
              /\ split.tag = "Ok"
              /\ joined.val = join(split.val, unwrap_or(sep, context.default_sep))
              /\ range.kind = "Single" => split.val = <<joined.val>>
        /\ joined.tag = "None" => split = Ok(<<>>)
        /\ joined.tag = "Panic" <=> split.tag = "Panic"

C8_Witness ==
    /\ pc = "both"
    /\ range.kind = "Both"
    /\ sep = Some(<<",">>)
    /\ split.tag = "Ok"
    /\ Len(split.val) = 2
    /\ split.val[1] # split.val[2]
    /\ joined = Some(split.val[1] \o <<",">> \o split.val[2])

\* C9 (as claimed): for every group count k, translate_neg_index(-1) = k and
\* translate_neg_index(-k) = 1; a negative index i maps to max(0, i + k + 1), a
\* non-negative index is returned unchanged, the result is never negative.
C9_RoundTripEveryCount ==
    pc = "translated" =>
        LET k == Len(context.groups)
            i == translated.idx
            expected == IF i + k + 1 > 0 THEN i + k + 1 ELSE 0
        IN  /\ i = -1 => translated.out = k
            /\ i = 0 - k => translated.out = 1
            /\ i < 0 => translated.out = expected
            /\ i >= 0 => translated.out = i
            /\ translated.out >= 0

\* C9 (amended): translate_neg_index(-1) = k for every group count k, and
\* translate_neg_index(-k) = 1 for every k >= 1 (with no group, -k is 0 and maps
\* to 0); a negative index i maps to max(0, i + k + 1), a non-negative index is
\* returned unchanged, the result is never negative.
C9_RoundTrip ==
    pc = "translated" =>
        LET k == Len(context.groups)
            i == translated.idx
            expected == IF i + k + 1 > 0 THEN i + k + 1 ELSE 0
        IN  /\ i = -1 => translated.out = k
            /\ (k >= 1 /\ i = 0 - k) => translated.out = 1
            /\ (k = 0 /\ i = 0) => translated.out = 0
            /\ i < 0 => translated.out = expected
            /\ i >= 0 => translated.out = i
            /\ translated.out >= 0

C9_Witness ==
    /\ pc = "translated"
    /\ Len(context.groups) = 3
    /\ translated = [idx |-> -3, out |-> 1]

-----------------------------------------------------------------------------
(* Building the RegexContext of one line *)

NameK == <<"k">>
NameZ == <<"z">>

\* the group names of the patterns tried: <<>> is an unnamed group
Patterns ==
    { <<>>, <<NoName>>, <<NameK>>, <<NoName, NoName>>, <<NameK, NoName>>,
      <<NoName, NameK>>, <<NameK, CONTEXT_KEY_LINENUM_SHORT>> }

\* what one match can capture: each group took part with some text, or did not
MatchesOf(pat) == [1..Len(pat) -> {None} \cup { Some(v) : v \in Values }]

LinesOf(pat) ==
    { [content |-> c, matches |-> ms] :
        c \in Contents, ms \in SeqsUpTo(MatchesOf(pat), MaxMatches) }

LookupNames == { NameK, NameZ, CONTEXT_KEY_LINENUM_SHORT, KeyWhole, KeyZero }

NoContext == [map |-> <<>>, groups |-> <<>>, default_sep |-> <<>>]

InitCtx ==
    /\ pattern \in Patterns
    /\ line \in LinesOf(pattern)
    /\ context = NoContext
    /\ LookupIdle
    /\ TplIdle
    /\ MainIdle
    /\ pc = "line"

Builder ==
    /\ pc = "line"
    /\ context' = builder(pattern, line)
    /\ pc' = "built"
    /\ UNCHANGED <<pattern, line, lookupVars, tplVars, mainVars>>

GetByName ==
    /\ pc = "built"
    /\ \E name \in LookupNames :
          named' = [name |-> name, out |-> get_by_name(context, name)]
    /\ pc' = "named"
    /\ UNCHANGED <<ctxVars, range, sep, joined, split, translated, tplVars, mainVars>>

GetByRangeSingle ==
    /\ pc = "built"
    /\ \E num \in Indices :
          /\ range' = Single(num)
          /\ joined' = get_by_range(context, Single(num), sep)
    /\ pc' = "single"
    /\ UNCHANGED <<ctxVars, sep, split, translated, named, tplVars, mainVars>>

NextCtx == Builder \/ GetByName \/ GetByRangeSingle

SpecCtx == InitCtx /\ [][NextCtx]_vars

-----------------------------------------------------------------------------
(* Claims about the RegexContext of a line *)

\* the group of the pattern that carries a name (0: none)
GroupOf(name) ==
    IF \E g \in 1..Len(pattern) : pattern[g] = name
    THEN CHOOSE g \in 1..Len(pattern) : pattern[g] = name
    ELSE 0

\* the matches of the line in which group g took part
TookPart(g) == { m \in 1..Len(line.matches) : line.matches[m][g].tag = "Some" }

SetMax(S) == CHOOSE x \in S : \A y \in S : y <= x

\* C4: named lookup is last-write-wins across the matches of a line: after
\* builder, get_by_name of a named capture group is the text the group captured
\* in the last match in which it took part (a later match without it changes
\* nothing), and a name that never captured is absent.
C4_LastWriteWins ==
    (pc = "named" /\ named.name \notin {KeyWhole, KeyZero}) =>
        LET g == GroupOf(named.name)
        IN  IF g = 0 \/ TookPart(g) = {}
            THEN named.out = None
            ELSE named.out = line.matches[SetMax(TookPart(g))][g]

C4_Witness ==
    /\ pc = "named"
    /\ named.name = NameK
    /\ pattern = <<NoName, NameK>>
    /\ Len(line.matches) = 2
    /\ line.matches[1][2] = Some(<<"b">>)
    /\ line.matches[2][2] = None
    /\ line.matches[2][1] = Some(<<"a">>)
    /\ named.out = Some(<<"b">>)

\* the captures of the line: <<match, group>> of every group that took part
Captured ==
    { p \in (1..Len(line.matches)) \X (1..Len(pattern)) :
        line.matches[p[1]][p[2]].tag = "Some" }

\* p is met no later than q: an earlier match, or the same match and no later group
Before(p, q) == p[1] < q[1] \/ (p[1] = q[1] /\ p[2] <= q[2])

\* the n-th capture met on the line
NthCaptured(n) ==
    LET p == CHOOSE q \in Captured : Cardinality({ r \in Captured : Before(r, q) }) = n
    IN  line.matches[p[1]][p[2]].val

\* C5: positional addressing covers all matches: the positional sequence is,
\* over the matches left to right, each match's captured texts in group order
\* (named groups included, group 0 excluded, one entry per group that took
\* part), and Single(n) for 1 <= n <= its length resolves to its n-th entry.
C5_PositionalCoversAllMatches ==
    /\ pc # "line" =>
          /\ Len(context.groups) = Cardinality(Captured)
          /\ \A n \in 1..Len(context.groups) : context.groups[n] = NthCaptured(n)
    /\ (pc = "single" /\ range.left \in 1..Cardinality(Captured)) =>
          joined = Some(NthCaptured(range.left))

C5_Witness ==
    /\ pc = "single"
    /\ pattern = <<NameK, NoName>>
    /\ Len(line.matches) = 2
    /\ line.matches[1] = <<Some(<<"a">>), None>>
    /\ line.matches[2] = <<Some(<<"b">>), Some(<<"b">>)>>
    /\ range = Single(1)
    /\ joined = Some(<<"a">>)

-----------------------------------------------------------------------------
(* Compiling, grouping and expanding one argument template *)

TemplateChars == {"a", "{", "}"}

\* every short string over TemplateChars, and some templates with fields
Templates ==
    SeqsUpTo(TemplateChars, MaxTemplateLen) \cup
    { <<"a", "b">>,
      <<"{", "1", ".", ".", ".", "}">>,
      <<"{", "k", "}", "/", "{", "2", "}">>,
      <<"{", "1", ".", ".", "2", ":", ",", "}">>,
      <<"{", "3", ".", ".", "1", "}">>,
      <<"x", "{", ".", ".", "}">>,
      <<"{", " ", "-", "1", " ", "}", "{", "z", "}">>,
      <<"{", "a", " ", "b", "}">>,
      <<"{", "2", "1", "4", "7", "4", "8", "3", "6", "4", "8", "}">> }

FragmentItems ==
    { Literal(<<>>), Literal(<<"x">>), NamedGroup(NameK), NamedGroup(NameZ),
      RangeGroup(Single(1), None), RangeGroup(Both(1, 2), Some(<<",">>)),
      RangeGroup(Both(3, 1), None),
      SplitRangeGroup(Both(1, -1)), SplitRangeGroup(Single(MaxGroups)) }

\* the first n groups of a line capturing a, b, a, b, ..
GroupsOf(n) == [i \in 1..n |-> IF i % 2 = 1 THEN <<"a">> ELSE <<"b">>]

\* contexts of a line "a b", with and without a group named k
TemplateContexts ==
    { [map |-> m, groups |-> GroupsOf(n), default_sep |-> <<" ">>] :
        n \in 0..MaxGroups,
        m \in { [key \in {KeyWhole, KeyZero} |-> <<"a", " ", "b">>],
                [key \in {KeyWhole, KeyZero, NameK} |->
                    IF key = NameK THEN <<"b">> ELSE <<"a", " ", "b">>] } }

InitTemplate ==
    /\ pattern = <<>>
    /\ line = NoLine
    /\ context \in TemplateContexts
    /\ LookupIdle
    /\ TplIdle
    /\ MainIdle
    /\ pc = "new"

\* ArgTemplate::from(arg)
FromStr ==
    /\ pc = "new"
    /\ \E a \in Templates :
          /\ template' = a
          /\ fragments' = From(a).val
          /\ pc' = IF From(a).tag = "Ok" THEN "compiled" ELSE "panicked"
    /\ UNCHANGED <<ctxVars, lookupVars, grouped, expanded, mainVars>>

\* ArgTemplate::apply_context(&context)
ApplyContext ==
    /\ pc = "compiled"
    /\ grouped' = group_combinations(fragments)
    /\ expanded' = apply_context(fragments, context)
    /\ pc' = "applied"
    /\ UNCHANGED <<ctxVars, lookupVars, template, fragments, mainVars>>

\* group_combinations(fragments) on any fragment sequence
GroupCombinations ==
    /\ pc = "new"
    /\ \E fs \in SeqsUpTo(FragmentItems, MaxFragments) :
          /\ fragments' = fs
          /\ grouped' = group_combinations(fs)
    /\ pc' = "grouped"
    /\ UNCHANGED <<ctxVars, lookupVars, template, expanded, mainVars>>

\* combine_with_context(context, combinations)
CombineWithContext ==
    /\ pc = "grouped"
    /\ expanded' = combine_with_context(context, grouped)
    /\ pc' = "combined"
    /\ UNCHANGED <<ctxVars, lookupVars, template, fragments, grouped, mainVars>>

NextTemplate == FromStr \/ ApplyContext \/ GroupCombinations \/ CombineWithContext

SpecTemplate == InitTemplate /\ [][NextTemplate]_vars

-----------------------------------------------------------------------------
(* Claims about templates *)

\* the template holds a token: a "{", text without braces, a "}"
HasFieldSyntax(t) ==
    \E i \in 1..Len(t), j \in 1..Len(t) :
        /\ i < j
        /\ t[i] = "{"
        /\ t[j] = "}"
        /\ \A x \in (i + 1)..(j - 1) : ~IsBrace(t[x])

\* C2: for every template string without field syntax, the empty string
\* included, and every line, from followed by apply_context yields exactly one
\* argument, the template's literal text.
C2_LiteralTemplateOneArgument ==
    (pc = "applied" /\ ~HasFieldSyntax(template)) => expanded = Ok(<<template>>)

\* what C2 leaves once the empty template is set aside (not the claim)
LiteralTemplateUnlessEmpty ==
    (pc = "applied" /\ ~HasFieldSyntax(template) /\ template # <<>>) =>
        expanded = Ok(<<template>>)

Expanded == pc \in {"combined", "applied"}

\* a sub-field's value, an absent one counting as the empty string
ValueOrEmpty(j) ==
    CASE j.kind = "Literal" -> j.text
      [] j.kind = "NamedGroup" -> unwrap_or(get_by_name(context, j.text), <<>>)
      [] j.kind = "RangeGroup" ->
            LET c == get_by_range(context, j.range, j.sep)
            IN  IF c.tag = "Some" THEN c.val ELSE <<>>

\* what a combination is to emit
PieceOf(c) ==
    IF c.kind = "Join"
    THEN <<concat([j \in 1..Len(c.joins) |-> ValueOrEmpty(c.joins[j])])>>
    ELSE get_by_split_range(context, c.range).val

RECURSIVE SumLen(_)
SumLen(seqs) == IF seqs = <<>> THEN 0 ELSE Len(Head(seqs)) + SumLen(Tail(seqs))

ArityHolds ==
    LET pieces == [c \in 1..Len(grouped) |-> PieceOf(grouped[c])]
        joins == { c \in 1..Len(grouped) : grouped[c].kind = "Join" }
    IN  /\ expanded.tag = "Ok"
        /\ expanded.val = concat(pieces)
        /\ Len(expanded.val) =
              Cardinality(joins) +
              SumLen([c \in 1..Len(grouped) |->
                        IF grouped[c].kind = "Split" THEN pieces[c] ELSE <<>>])

\* C3: for every sequence of combinations and every context,
\* combine_with_context emits, in combination order, one string per Join (its
\* resolved sub-values side by side, an absent one as the empty string) and the
\* elements of get_by_split_range per Split; the number of arguments is the
\* number of Joins plus the lengths of the Split results.
C3_ArityOfExpansion == Expanded => ArityHolds

\* what C3 leaves where no lookup aborts (not the claim)
ArityUnlessPanic == (Expanded /\ expanded.tag # "Panic") => ArityHolds

Grouped == pc \in {"grouped", "combined", "applied"}

\* the ranges of the split fragments, and of the Split combinations, in order
SplitFragmentRanges ==
    LET sp == SelectSeq(fragments, LAMBDA e : e.kind = "SplitRangeGroup")
    IN  [i \in 1..Len(sp) |-> sp[i].range]
SplitCombinationRanges ==
    LET sp == SelectSeq(grouped, LAMBDA c : c.kind = "Split")
    IN  [i \in 1..Len(sp) |-> sp[i].range]

\* the combinations after the first i fragments
GroupedUpTo(i) == group_combinations(SubSeq(fragments, 1, i))

\* fragment i was kept: it changed the combinations
Kept(i) == GroupedUpTo(i) # GroupedUpTo(i - 1)

\* the combination fragment i went to: the last one at that point
Owner(i) == Len(GroupedUpTo(i))

IsPrefix(a, b) == Len(a) <= Len(b) /\ SubSeq(b, 1, Len(a)) = a

\* a combination, once another follows it, is final; the last one only grows
OwnerIsFinal ==
    \A i \in 1..Len(fragments) :
        LET g == GroupedUpTo(i)
        IN  /\ Len(g) <= Len(grouped)
            /\ \A c \in 1..(Len(g) - 1) : g[c] = grouped[c]
            /\ Len(g) > 0 =>
                  /\ g[Len(g)].kind = grouped[Len(g)].kind
                  /\ g[Len(g)].range = grouped[Len(g)].range
                  /\ IsPrefix(g[Len(g)].joins, grouped[Len(g)].joins)

\* C10: group_combinations outputs one Split per SplitRangeGroup fragment, in
\* the same order and with that fragment's range; no Literal, NamedGroup or
\* RangeGroup is placed in a Split; two kept non-split fragments are in the same
\* Join iff no SplitRangeGroup fragment lies between them; no two Joins are
\* adjacent and no Join is empty.
C10_SplitIsolation ==
    Grouped =>
        /\ SplitCombinationRanges = SplitFragmentRanges
        /\ \A c \in 1..Len(grouped) :
              /\ grouped[c].kind = "Split" => grouped[c].joins = <<>>
              /\ grouped[c].kind = "Join" =>
                    /\ grouped[c].joins # <<>>
                    /\ \A j \in 1..Len(grouped[c].joins) :
                          grouped[c].joins[j].kind \in {"Literal", "NamedGroup", "RangeGroup"}
              /\ (c > 1 /\ grouped[c].kind = "Join") => grouped[c - 1].kind = "Split"
        /\ OwnerIsFinal
        /\ \A i \in 1..Len(fragments) :
              (fragments[i].kind = "SplitRangeGroup") =>
                  (Kept(i) /\ grouped[Owner(i)] = CombinationSplit(fragments[i].range))
        /\ \A i \in 1..Len(fragments), j \in 1..Len(fragments) :
              (/\ i < j
               /\ fragments[i].kind # "SplitRangeGroup" /\ Kept(i)
               /\ fragments[j].kind # "SplitRangeGroup" /\ Kept(j)) =>
                  /\ grouped[Owner(i)].kind = "Join"
                  /\ grouped[Owner(j)].kind = "Join"
                  /\ (Owner(i) = Owner(j)) <=>
                        ~(\E x \in (i + 1)..(j - 1) : fragments[x].kind = "SplitRangeGroup")

C10_Witness ==
    /\ pc = "grouped"
    /\ fragments = <<Literal(<<"x">>), SplitRangeGroup(Both(1, -1)), NamedGroup(NameK)>>
    /\ grouped = <<CombinationJoin(<<JoinOf(Literal(<<"x">>))>>),
                   CombinationSplit(Both(1, -1)),
                   CombinationJoin(<<JoinOf(NamedGroup(NameK))>>)>>

RECURSIVE Flattened(_)
\* the fragments a combination sequence stands for: each Join's sub-fields in
\* order, each Split as its range
Flattened(combs) ==
    IF combs = <<>> THEN <<>>
    ELSE (IF Head(combs).kind = "Split"
          THEN <<SplitRangeGroup(Head(combs).range)>>
          ELSE Head(combs).joins) \o Flattened(Tail(combs))

IsEmptyLiteral(e) == e.kind = "Literal" /\ e.text = <<>>

\* the fragments of a sequence that are not empty Literals
NonEmpty(frags) == SelectSeq(frags, LAMBDA e : ~IsEmptyLiteral(e))

\* the fragments that were kept, in input order
KeptFragments ==
    LET idx == SelectSeq([i \in 1..Len(fragments) |-> i], LAMBDA i : Kept(i))
    IN  [k \in 1..Len(idx) |-> fragments[idx[k]]]

\* a Join is the last combination when fragment i arrives
JoinOpen(i) ==
    LET g == GroupedUpTo(i - 1)
    IN  g # <<>> /\ g[Len(g)].kind = "Join"

\* fragment i arrives at the very beginning: no combination exists yet
AtBeginning(i) == GroupedUpTo(i - 1) = <<>>

\* fragment i was appended to the Join that was open, which stays the last one
KeptInOpenJoin(i) ==
    LET before == GroupedUpTo(i - 1)
        after == GroupedUpTo(i)
    IN  /\ Len(after) = Len(before)
        /\ after[Len(after)] =
              CombinationJoin(Append(before[Len(before)].joins, JoinOf(fragments[i])))
        /\ \A c \in 1..(Len(before) - 1) : after[c] = before[c]

\* what C11 states apart from where an empty Literal is removed: the flattened
\* output is the input without the removed fragments, in order; only empty
\* Literals are removed; an empty Literal arriving at an open Join is kept in
\* it and leaves it open
OrderAndContent ==
    /\ Flattened(grouped) = KeptFragments
    /\ NonEmpty(Flattened(grouped)) = NonEmpty(fragments)
    /\ \A i \in 1..Len(fragments) :
          /\ ~Kept(i) => IsEmptyLiteral(fragments[i])
          /\ (IsEmptyLiteral(fragments[i]) /\ JoinOpen(i)) => KeptInOpenJoin(i)

\* C11: flattening the output of group_combinations gives the input fragments
\* in order with only empty Literals removed; an empty Literal is removed only
\* when no Join is open, at the very beginning; an empty Literal arriving while
\* a Join is open is kept in that Join and does not close it.
C11_RemovedOnlyAtBeginning ==
    Grouped =>
        /\ OrderAndContent
        /\ \A i \in 1..Len(fragments) :
              ~Kept(i) => (~JoinOpen(i) /\ AtBeginning(i))

\* C11 (amended): flattening the output of group_combinations gives the input
\* fragments in order with only empty Literals removed; an empty Literal is
\* removed exactly when no Join is open where it arrives, which is before any
\* combination exists or directly after a Split; an empty Literal arriving
\* while a Join is open is kept in that Join and does not close it; no
\* non-empty fragment is dropped, duplicated or reordered.
C11_RemovedWhereNoJoinOpen ==
    Grouped =>
        /\ OrderAndContent
        /\ \A i \in 1..Len(fragments) :
              /\ IsEmptyLiteral(fragments[i]) => (Kept(i) <=> JoinOpen(i))
              /\ ~JoinOpen(i) <=>
                    (AtBeginning(i) \/ GroupedUpTo(i - 1)[Len(GroupedUpTo(i - 1))].kind = "Split")

\* an empty Literal removed directly after a Split, the next Literal opening a Join
C11_Witness ==
    /\ pc = "grouped"
    /\ fragments = <<SplitRangeGroup(Both(1, -1)), Literal(<<>>), Literal(<<"x">>)>>
    /\ grouped = <<CombinationSplit(Both(1, -1)),
                   CombinationJoin(<<JoinOf(Literal(<<"x">>))>>)>>

\* an empty Literal kept in the Join that was open when it arrived
C11_KeptWitness ==
    /\ pc = "grouped"
    /\ fragments = <<NamedGroup(NameK), Literal(<<>>), Literal(<<"x">>)>>
    /\ grouped = <<CombinationJoin(<<JoinOf(NamedGroup(NameK)), JoinOf(Literal(<<>>)),
                                      JoinOf(Literal(<<"x">>))>>)>>

-----------------------------------------------------------------------------
(* main: the read loop, the thread pool and Rargs::get_args *)

I32Min == (0 - I32Max) - 1

\* x - 1 and x + 1 on i32: a build with overflow checks panics where the other wraps
sub_one(x, checks) ==
    IF x = I32Min THEN (IF checks THEN Panic ELSE Ok(I32Max)) ELSE Ok(x - 1)
add_one(x, checks) ==
    IF x = I32Max THEN (IF checks THEN Panic ELSE Ok(I32Min)) ELSE Ok(x + 1)

RECURSIVE digits_of(_)
\* the decimal digits of n >= 0
digits_of(n) ==
    IF n < 10 THEN <<Digits[n + 1]>> ELSE digits_of(n \div 10) \o <<Digits[(n % 10) + 1]>>

RECURSIVE digits_of_negative(_)
\* the decimal digits of -n for n < 0, computed without negating n
digits_of_negative(n) ==
    LET d == (10 - (n % 10)) % 10
        rest == (n + d) \div 10
    IN  IF rest = 0 THEN <<Digits[d + 1]>> ELSE digits_of_negative(rest) \o <<Digits[d + 1]>>

\* i32::to_string
to_string(n) == IF n < 0 THEN <<"-">> \o digits_of_negative(n) ELSE digits_of(n)

\* the byte 0
NUL == "NUL"

ends_with(buffer, suffix) ==
    Len(buffer) >= Len(suffix) /\
    SubSeq(buffer, Len(buffer) - Len(suffix) + 1, Len(buffer)) = suffix

\* remove line-ending
strip_line_ending(buffer) ==
    IF ends_with(buffer, <<"\r", "\n">>) THEN SubSeq(buffer, 1, Len(buffer) - 2)
    ELSE IF ends_with(buffer, <<"\n">>) \/ ends_with(buffer, <<NUL>>)
         THEN SubSeq(buffer, 1, Len(buffer) - 1)
    ELSE buffer

RECURSIVE apply_templates(_, _)
\* self.args.iter().flat_map(|arg| arg.apply_context(&context)).collect()
apply_templates(ctx, templates) ==
    IF templates = <<>> THEN Ok(<<>>)
    ELSE chain(apply_context(Head(templates), ctx), apply_templates(ctx, Tail(templates)))

\* Rargs::get_args(line, line_num): the arguments of the command, or Panic
get_args(pat, templates, separator, ln, num) ==
    LET ctx == put(put(default_sep(builder(pat, ln), separator),
                       CONTEXT_KEY_LINENUM, to_string(num)),
                   CONTEXT_KEY_LINENUM_SHORT, to_string(num))
    IN  apply_templates(ctx, templates)

\* the templates {LN} and {LINENUM}, then one more
TemplateLN == <<"{", "L", "N", "}">>
TemplateLINENUM == <<"{", "L", "I", "N", "E", "N", "U", "M", "}">>
ArgLists ==
    { <<From(TemplateLN).val, From(TemplateLINENUM).val, From(t).val>> :
        t \in { <<"{", "k", "}", "-", "{", "2", "}">>, <<"{", "1", ".", ".", ".", "}">> } }

\* what read_until returns, with what the pattern yields on the line: the
\* pattern has a group k and a group LN
MainPattern == <<NameK, CONTEXT_KEY_LINENUM_SHORT>>
RawLines ==
    { [buffer |-> <<"a", "\n">>, utf8 |-> TRUE,
       matches |-> << <<Some(<<"a">>), None>> >>],
      [buffer |-> <<"a", " ", "9", "\r", "\n">>, utf8 |-> TRUE,
       matches |-> << <<Some(<<"a">>), None>>, <<None, Some(<<"9">>)>> >>],
      [buffer |-> <<"?", "\n">>, utf8 |-> FALSE, matches |-> <<>>] }

StartNums == {I32Min, 5, I32Max - 1}

Threads == 1..MaxThreads

NoJob == [line |-> NoLine, line_num |-> 0, ord |-> 0]

Init ==
    /\ pattern = MainPattern
    /\ line = NoLine
    /\ context = NoContext
    /\ LookupIdle
    /\ TplIdle
    /\ options \in [startnum : StartNums, dryrun : BOOLEAN, threads : Threads]
    /\ overflow_checks \in BOOLEAN
    /\ args \in ArgLists
    /\ stdin \in SeqsUpTo(RawLines, MaxLines)
    /\ line_num = 0
    /\ read_count = 0
    /\ pool = <<>>
    /\ running = [w \in 1..options.threads |-> NoJob]
    /\ executed = <<>>
    /\ exit_code = 0
    /\ pc = "start"

\* let mut line_num = options.startnum - 1
Start ==
    /\ pc = "start"
    /\ LET n == sub_one(options.startnum, overflow_checks)
       IN  /\ line_num' = IF n.tag = "Ok" THEN n.val ELSE line_num
           /\ pc' = IF n.tag = "Ok" THEN "loop" ELSE "overflow"
    /\ UNCHANGED <<ctxVars, lookupVars, tplVars, options, overflow_checks, args, stdin,
                   read_count, pool, running, executed, exit_code>>

\* one turn of the loop with read_until returning Ok(n), n > 0
ReadLine ==
    /\ pc = "loop"
    /\ stdin # <<>>
    /\ LET raw == Head(stdin)
           n == add_one(line_num, overflow_checks)
           content == [content |-> strip_line_ending(raw.buffer), matches |-> raw.matches]
           job == [line |-> content, line_num |-> n.val, ord |-> read_count + 1]
           printed == get_args(pattern, args, <<" ">>, content, n.val)
       IN  /\ stdin' = Tail(stdin)
           /\ IF n.tag = "Panic"
              THEN /\ pc' = "overflow"
                   /\ UNCHANGED <<line, line_num, read_count, pool, executed>>
              ELSE /\ line_num' = n.val
                   /\ IF ~raw.utf8
                      THEN /\ pc' = "invalid_utf8"
                           /\ UNCHANGED <<line, read_count, pool, executed>>
                      ELSE /\ line' = content
                           /\ read_count' = read_count + 1
                           /\ IF options.dryrun
                              THEN /\ executed' = Append(executed,
                                          [ord |-> job.ord, line_num |-> job.line_num,
                                           args |-> printed])
                                   /\ pc' = IF printed.tag = "Panic" THEN "panicked" ELSE "loop"
                                   /\ pool' = pool
                              ELSE /\ pool' = Append(pool, job)
                                   /\ pc' = "loop"
                                   /\ executed' = executed
    /\ UNCHANGED <<pattern, context, lookupVars, tplVars, options, overflow_checks, args,
                   running, exit_code>>

\* read_until returns Ok(0)
ReadEof ==
    /\ pc = "loop"
    /\ stdin = <<>>
    /\ pc' = "join"
    /\ UNCHANGED <<ctxVars, lookupVars, tplVars, mainVars>>

\* read_until returns Err
ReadErr ==
    /\ pc = "loop"
    /\ exit_code' = 1
    /\ pc' = "join"
    /\ UNCHANGED <<ctxVars, lookupVars, tplVars, options, overflow_checks, args, stdin,
                   line_num, read_count, pool, running, executed>>

MainAlive == pc # "exited"

\* a worker thread of the pool takes the next job
WorkerTake(w) ==
    /\ MainAlive
    /\ running[w] = NoJob
    /\ pool # <<>>
    /\ running' = [running EXCEPT ![w] = Head(pool)]
    /\ pool' = Tail(pool)
    /\ UNCHANGED <<ctxVars, lookupVars, tplVars, options, overflow_checks, args, stdin,
                   line_num, read_count, executed, exit_code, pc>>

\* the job of a worker: rargs.execute_for_input(&line, line_num)
ExecuteForInput(w) ==
    /\ MainAlive
    /\ running[w] # NoJob
    /\ executed' = Append(executed,
            [ord |-> running[w].ord, line_num |-> running[w].line_num,
             args |-> get_args(pattern, args, <<" ">>, running[w].line, running[w].line_num)])
    /\ running' = [running EXCEPT ![w] = NoJob]
    /\ UNCHANGED <<ctxVars, lookupVars, tplVars, options, overflow_checks, args, stdin,
                   line_num, read_count, pool, exit_code, pc>>

\* pool.join(); std::process::exit(exit_code)
Exit ==
    /\ pc = "join"
    /\ pool = <<>>
    /\ \A w \in DOMAIN running : running[w] = NoJob
    /\ pc' = "exited"
    /\ UNCHANGED <<ctxVars, lookupVars, tplVars, mainVars>>

\* the main thread has panicked: the process ends, whatever the workers hold
Abort ==
    /\ pc \in {"overflow", "invalid_utf8", "panicked"}
    /\ pc' = "exited"
    /\ UNCHANGED <<ctxVars, lookupVars, tplVars, mainVars>>

Next ==
    \/ Start
    \/ ReadLine
    \/ ReadEof
    \/ ReadErr
    \/ \E w \in DOMAIN running : WorkerTake(w)
    \/ \E w \in DOMAIN running : ExecuteForInput(w)
    \/ Exit
    \/ Abort

Spec == Init /\ [][Next]_vars

-----------------------------------------------------------------------------
(* Claims about main *)

\* the jobs queued, held by a worker, and the commands run or printed
Numbered ==
    { [ord |-> pool[i].ord, line_num |-> pool[i].line_num] : i \in 1..Len(pool) }
        \cup { [ord |-> running[w].ord, line_num |-> running[w].line_num] :
                 w \in { x \in DOMAIN running : running[x] # NoJob } }
        \cup { [ord |-> executed[i].ord, line_num |-> executed[i].line_num] :
                 i \in 1..Len(executed) }

\* s + k - 1 is an i32
Representable(s, k) == s <= I32Max - (k - 1)

\* C6: for every start value s and every k >= 1 the k-th line read is expanded
\* with line number s + k - 1, whatever the interleaving of the workers, and
\* LINENUM and LN both resolve to that number in decimal, over a capture group
\* of the same name.
C6_LineNumbering ==
    /\ pc # "overflow"
    /\ \A j \in Numbered :
          /\ j.ord >= 1
          /\ Representable(options.startnum, j.ord)
          /\ j.line_num = options.startnum + (j.ord - 1)
    /\ \A i \in 1..Len(executed) :
          executed[i].args.tag = "Ok" =>
              /\ executed[i].args.val[1] = executed[i].args.val[2]
              /\ parse_i32(executed[i].args.val[1]) = Some(executed[i].line_num)

\* what C6 leaves where the counter stays inside i32 (not the claim)
LineNumberingUnlessOverflow ==
    /\ (pc = "overflow" /\ options.startnum # I32Min) =>
          ~Representable(options.startnum, read_count + 1)
    /\ \A j \in Numbered :
          (options.startnum # I32Min /\ Representable(options.startnum, j.ord)) =>
              /\ j.ord >= 1
              /\ j.line_num = options.startnum + (j.ord - 1)
    /\ \A i \in 1..Len(executed) :
          executed[i].args.tag = "Ok" =>
              /\ executed[i].args.val[1] = executed[i].args.val[2]
              /\ parse_i32(executed[i].args.val[1]) = Some(executed[i].line_num)

=============================================================================
